---- MODULE Spec2Model ----
(***************************************************************************)
(* The semantic DOM layer of taplo (src/taplo/src/dom.rs): RootNode::cast  *)
(* walks the children of a ROOT syntax node, collects the entries in an    *)
(* insertion-ordered map keyed by their full key, checks them, and then    *)
(* merges and normalizes them into a tree of tables and arrays.            *)
(***************************************************************************)
EXTENDS Integers, Sequences, FiniteSets, TLC

\* The number of top-level children of the ROOT node that are walked.
MaxChildren == 4

\* The number of idents of a key in the calls of the functions of KeyNode.
MaxIdents == 2

(***************************************************************************)
(* Sequences.                                                              *)
(***************************************************************************)
Take(s, n) == SubSeq(s, 1, n)

Drop(s, n) == SubSeq(s, n + 1, Len(s))

Min(a, b) == IF a < b THEN a ELSE b

Max(a, b) == IF a < b THEN b ELSE a

(***************************************************************************)
(* Tokens.  The text of a token is a sequence of characters.               *)
(***************************************************************************)
DQ == "\""

SQ == "'"

\* str::trim_start_matches(pat): removes every leading repetition of pat.
RECURSIVE trim_start_matches(_, _)
trim_start_matches(s, c) ==
    IF s # <<>> /\ Head(s) = c THEN trim_start_matches(Tail(s), c) ELSE s

\* str::trim_end_matches(pat): removes every trailing repetition of pat.
RECURSIVE trim_end_matches(_, _)
trim_end_matches(s, c) ==
    IF s # <<>> /\ s[Len(s)] = c
    THEN trim_end_matches(Take(s, Len(s) - 1), c)
    ELSE s

starts_with(s, c) == s # <<>> /\ Head(s) = c

\* The closure of KeyNode::keys_str, applied to the text of one ident.
ident_str(text) ==
    LET s1 == IF starts_with(text, DQ)
              THEN trim_end_matches(trim_start_matches(text, DQ), DQ)
              ELSE text
    IN  IF starts_with(s1, SQ)
        THEN trim_end_matches(trim_start_matches(s1, SQ), SQ)
        ELSE s1

(***************************************************************************)
(* KeyNode: the ident tokens of a dotted key and the index that tells the  *)
(* headers of one array of tables apart.                                   *)
(***************************************************************************)
KeyNode(idents, index) == [idents |-> idents, index |-> index]

key_count(k) == Len(k.idents)

keys_str(k) == [i \in 1..Len(k.idents) |-> ident_str(k.idents[i])]

\* is_part_of without the comparison of the numbers of idents.
is_part_of_any_length(self, other) ==
    \A i \in 1..Min(Len(self.idents), Len(other.idents)) :
        keys_str(self)[i] = keys_str(other)[i]

is_part_of(self, other) ==
    IF Len(other.idents) < Len(self.idents)
    THEN FALSE
    ELSE \A i \in 1..Min(Len(self.idents), Len(other.idents)) :
            keys_str(self)[i] = keys_str(other)[i]

contains(self, other) == is_part_of(other, self)

outer(self, n) == [self EXCEPT !.idents = Take(@, Min(Len(@), Max(1, n)))]

\* inner without the ident that is kept: n idents are drained.
inner_drains_all(self, n) ==
    LET max_range == Min(n, Len(self.idents))
    IN  IF max_range = 0 THEN self
        ELSE [self EXCEPT !.idents = Drop(@, max_range)]

inner(self, n) ==
    LET len           == Len(self.idents)
        max_end_range == IF len > 0 THEN len - 1 ELSE len
        max_range     == Min(n, max_end_range)
    IN  IF max_range = 0 THEN self
        ELSE [self EXCEPT !.idents = Drop(@, max_range)]

RECURSIVE common_prefix_from(_, _, _)
common_prefix_from(a, b, count) ==
    IF count < Len(a) /\ count < Len(b) /\ a[count + 1] = b[count + 1]
    THEN common_prefix_from(a, b, count + 1)
    ELSE count

common_prefix_count(self, other) ==
    common_prefix_from(keys_str(self), keys_str(other), 0)

eq_keys(self, other) ==
    key_count(self) = key_count(other) /\ is_part_of(self, other)

\* with_prefix without self.index = other.index.
with_prefix_keeps_index(self, other) ==
    [idents |-> other.idents \o self.idents, index |-> self.index]

with_prefix(self, other) ==
    [idents |-> other.idents \o self.idents, index |-> other.index]

without_prefix(self, other) ==
    LET count == common_prefix_count(self, other)
    IN  IF count > 0 THEN inner(self, count) ELSE self

with_index(self, index) == [self EXCEPT !.index = index]

KeyNode_prefix(self) == outer(self, key_count(self) - 1)

last(self) == inner(self, key_count(self))

\* impl PartialEq for KeyNode
KeyNode_eq(self, other) == eq_keys(self, other) /\ self.index = other.index

\* impl Hash for KeyNode: the values given to the hasher, in order.
KeyNode_hash(self) == Append(keys_str(self), self.index)

(***************************************************************************)
(* Values, entries and errors.                                             *)
(***************************************************************************)
\* A reference to a syntax node: its kind and the top-level child it is in.
SyntaxRef(kind, pos) == [kind |-> kind, pos |-> pos]

IntegerNode(syntax) == [kind |-> "Integer", syntax |-> syntax]

ArrayNode(syntax, tables, items) ==
    [kind |-> "Array", syntax |-> syntax, tables |-> tables, items |-> items]

TableNode(syntax, array, pseudo, entries) ==
    [kind |-> "Table", syntax |-> syntax, array |-> array, pseudo |-> pseudo,
     entries |-> entries]

Empty == [kind |-> "Empty"]

EntryNode(syntax, key, value) == [syntax |-> syntax, key |-> key, value |-> value]

is_table(v) == v.kind = "Table"

is_part_of_array(t) == t.array

is_inline(t) == t.syntax.kind = "INLINE_TABLE"

is_pseudo(t) == t.pseudo

\* is_table_array without the test of t.is_part_of_array().
is_any_table(v) == is_table(v)

\* match &e.value { ValueNode::Table(t) => t.is_part_of_array(), _ => false }
is_table_array(v) == IF is_table(v) THEN is_part_of_array(v) ELSE FALSE

DuplicateKey(first, second) ==
    [type |-> "DuplicateKey", first |-> first, second |-> second]

ExpectedTableArray(target, key) ==
    [type |-> "ExpectedTableArray", target |-> target, key |-> key]

ExpectedTable(target, key) ==
    [type |-> "ExpectedTable", target |-> target, key |-> key]

InlineTable(target, key) ==
    [type |-> "InlineTable", target |-> target, key |-> key]

Spanned(pos, message) == [type |-> "Spanned", range |-> pos, message |-> message]

(***************************************************************************)
(* The syntax tree.  A KEY node is given by the texts of its IDENT tokens, *)
(* a VALUE node wraps one value element, an ARRAY node holds VALUE nodes   *)
(* and an INLINE_TABLE node holds ENTRY nodes.                             *)
(***************************************************************************)
SValue(child) == [kind |-> "VALUE", child |-> child]

SInteger == [kind |-> "INTEGER"]

SArray(values) == [kind |-> "ARRAY", values |-> values]

SInlineTable(entries) == [kind |-> "INLINE_TABLE", entries |-> entries]

SEntry(key, value) == [kind |-> "ENTRY", key |-> key, value |-> value]

SHeader(key) == [kind |-> "TABLE_HEADER", key |-> key]

SArrayHeader(key) == [kind |-> "TABLE_ARRAY_HEADER", key |-> key]

\* Option<T>: the empty sequence is None, a one-element sequence is Some.
None == <<>>

Some(x) == <<x>>

\* impl Cast for KeyNode: the IDENT tokens of the node, None if there are none.
KeyNode_cast(idents) ==
    IF Len(idents) = 0 THEN None ELSE Some(KeyNode(idents, 0))

\* SyntaxNode::descendants_with_tokens of a value element, in preorder; the
\* element itself comes first.  Only the nodes matter to ValueNode::cast.
RECURSIVE descendants(_), descendants_all(_, _)
descendants(n) ==
    CASE n.kind = "VALUE"        -> <<n>> \o descendants(n.child)
      [] n.kind = "ARRAY"        -> <<n>> \o descendants_all(n.values, 1)
      [] n.kind = "INLINE_TABLE" -> <<n>> \o descendants_all(n.entries, 1)
      [] n.kind = "ENTRY"        -> <<n>> \o descendants(n.value)
      [] OTHER                   -> <<n>>

descendants_all(ns, i) ==
    IF i > Len(ns) THEN <<>>
    ELSE descendants(ns[i]) \o descendants_all(ns, i + 1)

\* filter_map(Cast::cast).collect() over a sequence of Option values.
RECURSIVE filter_some(_, _)
filter_some(opts, i) ==
    IF i > Len(opts) THEN <<>>
    ELSE opts[i] \o filter_some(opts, i + 1)

RECURSIVE ValueNode_cast(_, _), ArrayNode_cast(_, _), TableNode_cast_inline(_, _),
          EntryNode_cast(_, _)
\* impl Cast for ValueNode: the first child of a VALUE node decides.  The
\* first child or token of every other node is a bracket or a KEY node, and
\* a token has no child: their cast is None.
ValueNode_cast(element, pos) ==
    IF element.kind # "VALUE" THEN None
    ELSE CASE element.child.kind = "INLINE_TABLE" ->
                Some(TableNode_cast_inline(element.child, pos))
           [] element.child.kind = "ARRAY" ->
                Some(ArrayNode_cast(element.child, pos))
           [] element.child.kind = "INTEGER" ->
                Some(IntegerNode(SyntaxRef("INTEGER", pos)))
           [] OTHER -> None

\* impl Cast for ArrayNode, the ARRAY arm.
ArrayNode_cast(syntax, pos) ==
    LET ds == descendants(syntax)
    IN  ArrayNode(SyntaxRef("ARRAY", pos), FALSE,
                  filter_some([i \in 1..Len(ds) |-> ValueNode_cast(ds[i], pos)], 1))

\* impl Cast for TableNode, the INLINE_TABLE arm.
TableNode_cast_inline(syntax, pos) ==
    TableNode(SyntaxRef("INLINE_TABLE", pos), FALSE, FALSE,
              filter_some([i \in 1..Len(syntax.entries) |->
                              EntryNode_cast(syntax.entries[i], pos)], 1))

\* impl Cast for EntryNode.
EntryNode_cast(element, pos) ==
    IF element.kind # "ENTRY" THEN None
    ELSE LET key == KeyNode_cast(element.key)
             val == ValueNode_cast(element.value, pos)
         IN  IF key = None THEN None
             ELSE IF val = None THEN None
             ELSE Some(EntryNode(SyntaxRef("ENTRY", pos), key[1], val[1]))

\* impl Cast for TableNode, the TABLE_HEADER | TABLE_ARRAY_HEADER arm.
TableNode_cast(syntax, pos) ==
    IF KeyNode_cast(syntax.key) = None THEN None
    ELSE Some(TableNode(SyntaxRef(syntax.kind, pos),
                        syntax.kind = "TABLE_ARRAY_HEADER", FALSE, <<>>))

(***************************************************************************)
(* Entries::merge and Entries::merge_entry.  A result carries the error    *)
(* list, which the nested merges extend, and a panic flag.                 *)
(***************************************************************************)
MergeOk(merged, old_entry, errors) ==
    [tag |-> "Ok", merged |-> merged, old |-> old_entry, errors |-> errors]

MergeErr(err, old_entry, errors) ==
    [tag |-> "Err", err |-> err, old |-> old_entry, errors |-> errors]

MergePanic(message) == [tag |-> "Panic", message |-> message]

\* array_of_tables_value without t.array = false.
array_of_tables_value_keeps_flag(value) ==
    IF is_table(value)
    THEN IF value.array THEN ArrayNode(value.syntax, TRUE, <<value>>) ELSE value
    ELSE value

\* array_of_tables_value with items: Vec::new() in place of vec![table].
array_of_tables_value_without_item(value) ==
    IF is_table(value)
    THEN IF value.array THEN ArrayNode(value.syntax, TRUE, <<>>) ELSE value
    ELSE value

\* The value an entry is inserted with: an array-of-tables header becomes an
\* array of tables with that one table.
array_of_tables_value(value) ==
    IF is_table(value)
    THEN IF value.array
         THEN ArrayNode(value.syntax, TRUE, <<[value EXCEPT !.array = FALSE]>>)
         ELSE value
    ELSE value

\* pseudo_table_entry with the new entry put before the old one.
pseudo_table_entry_new_first(old_entry, new_entry, common_count) ==
    LET common_prefix == outer(old_entry.key, common_count)
        a == [old_entry EXCEPT !.key = without_prefix(@, common_prefix)]
        b == [new_entry EXCEPT !.key = without_prefix(@, common_prefix)]
    IN  [old_entry EXCEPT
            !.key = common_prefix,
            !.value = TableNode(old_entry.syntax, FALSE, TRUE, <<b, a>>)]

\* The pseudo-table that takes the place of two entries sharing a prefix.
pseudo_table_entry(old_entry, new_entry, common_count) ==
    LET common_prefix == outer(old_entry.key, common_count)
        a == [old_entry EXCEPT !.key = without_prefix(@, common_prefix)]
        b == [new_entry EXCEPT !.key = without_prefix(@, common_prefix)]
    IN  [old_entry EXCEPT
            !.key = common_prefix,
            !.value = TableNode(old_entry.syntax, FALSE, TRUE, <<a, b>>)]

RECURSIVE merge(_, _), merge_entries_from(_, _, _, _), merge_existing_from(_, _, _, _),
          merge_entry(_, _, _), merge_into_table(_, _, _), merge_into_last_item(_, _, _)

\* Entries::merge: the entries merged, the errors, and whether it panicked.
merge(self, errors) == merge_entries_from(self, 1, <<>>, errors)

\* The loop over mem::take(&mut self.0), from the i-th entry on.
merge_entries_from(self, i, new_entries, errors) ==
    IF i > Len(self)
    THEN [entries |-> new_entries, errors |-> errors, panic |-> FALSE]
    ELSE LET entry == [self[i] EXCEPT !.key = with_index(@, 0)]
             r     == merge_existing_from(new_entries, 1, entry, errors)
         IN  IF r.panic
             THEN [entries |-> new_entries, errors |-> errors, panic |-> TRUE]
             ELSE IF r.should_insert
             THEN merge_entries_from(self, i + 1,
                      Append(r.entries,
                             [entry EXCEPT !.value = array_of_tables_value(@)]),
                      r.errors)
             ELSE merge_entries_from(self, i + 1, r.entries, r.errors)

\* The loop over &mut new_entries, from the j-th existing entry on.
merge_existing_from(new_entries, j, entry, errors) ==
    IF j > Len(new_entries)
    THEN [should_insert |-> TRUE, entries |-> new_entries, errors |-> errors,
          panic |-> FALSE]
    ELSE LET r == merge_entry(new_entries[j], entry, errors)
         IN  CASE r.tag = "Panic" ->
                    [should_insert |-> FALSE, entries |-> new_entries,
                     errors |-> errors, panic |-> TRUE]
               [] r.tag = "Err" ->
                    [should_insert |-> FALSE,
                     entries |-> [new_entries EXCEPT ![j] = r.old],
                     errors |-> Append(r.errors, r.err), panic |-> FALSE]
               [] OTHER ->
                    IF r.merged
                    THEN [should_insert |-> FALSE,
                          entries |-> [new_entries EXCEPT ![j] = r.old],
                          errors |-> r.errors, panic |-> FALSE]
                    ELSE merge_existing_from([new_entries EXCEPT ![j] = r.old],
                                             j + 1, entry, r.errors)

\* merge_into_table without the test of t.is_inline().
merge_into_any_table(old_entry, new_entry, errors) ==
    LET t == old_entry.value
        to_insert == [new_entry EXCEPT !.key = without_prefix(@, old_entry.key)]
        m == merge(Append(t.entries, to_insert), errors)
    IN  IF m.panic THEN MergePanic("nested merge")
        ELSE MergeOk(TRUE, [old_entry EXCEPT !.value.entries = m.entries], m.errors)

\* The ValueNode::Table arm: the new entry goes into the table old_entry holds.
merge_into_table(old_entry, new_entry, errors) ==
    LET t == old_entry.value
    IN  IF is_inline(t)
        THEN MergeErr(InlineTable(old_entry.key, new_entry.key), old_entry, errors)
        ELSE LET to_insert == [new_entry EXCEPT
                                  !.key = without_prefix(@, old_entry.key)]
                 m == merge(Append(t.entries, to_insert), errors)
             IN  IF m.panic THEN MergePanic("nested merge")
                 ELSE MergeOk(TRUE, [old_entry EXCEPT !.value.entries = m.entries],
                              m.errors)

\* merge_into_last_item with items.first_mut() in place of items.last_mut().
merge_into_first_item(old_entry, new_entry, errors) ==
    LET items == old_entry.value.items
    IN  IF Len(items) = 0 THEN MergePanic("unwrap on None")
        ELSE IF ~is_table(items[1])
        THEN MergePanic("expected array of tables")
        ELSE LET arr_t == items[1]
                 to_insert == [new_entry EXCEPT
                                  !.key = without_prefix(@, old_entry.key)]
                 m == merge(Append(arr_t.entries, to_insert), errors)
             IN  IF m.panic THEN MergePanic("nested merge")
                 ELSE MergeOk(TRUE,
                        [old_entry EXCEPT !.value.items[1].entries = m.entries],
                        m.errors)

\* old_arr.items.last_mut().unwrap(): the new entry goes into the last table
\* of the array of tables old_entry holds.
merge_into_last_item(old_entry, new_entry, errors) ==
    LET items == old_entry.value.items
    IN  IF Len(items) = 0 THEN MergePanic("unwrap on None")
        ELSE IF ~is_table(items[Len(items)])
        THEN MergePanic("expected array of tables")
        ELSE LET arr_t == items[Len(items)]
                 to_insert == [new_entry EXCEPT
                                  !.key = without_prefix(@, old_entry.key)]
                 m == merge(Append(arr_t.entries, to_insert), errors)
             IN  IF m.panic THEN MergePanic("nested merge")
                 ELSE MergeOk(TRUE,
                        [old_entry EXCEPT
                            !.value.items[Len(items)].entries = m.entries],
                        m.errors)

\* merge_entry with Ok(false) in place of the error for the other values.
merge_entry_skips_other_values(old_entry, new_entry, errors) ==
    LET old_key == old_entry.key
        new_key == new_entry.key
    IN  IF is_part_of(old_key, new_key)
        THEN CASE old_entry.value.kind = "Table" ->
                    merge_into_table(old_entry, new_entry, errors)
               [] old_entry.value.kind = "Array" ->
                    IF ~old_entry.value.tables
                    THEN MergeErr(ExpectedTableArray(old_entry.key, new_entry.key),
                                  old_entry, errors)
                    ELSE CASE new_entry.value.kind = "Table" ->
                                IF eq_keys(old_key, new_key) /\ new_entry.value.array
                                THEN MergeOk(TRUE,
                                        [old_entry EXCEPT !.value.items =
                                            Append(@, [new_entry.value EXCEPT
                                                          !.array = FALSE])],
                                        errors)
                                ELSE merge_into_last_item(old_entry, new_entry, errors)
                           [] new_entry.value.kind = "Empty" ->
                                MergePanic("empty value")
                           [] OTHER ->
                                merge_into_last_item(old_entry, new_entry, errors)
               [] old_entry.value.kind = "Empty" -> MergePanic("empty value")
               [] OTHER -> MergeOk(FALSE, old_entry, errors)
        ELSE IF is_part_of(new_key, old_key)
        THEN LET r == merge_entry(new_entry, old_entry, errors)
             IN  CASE r.tag = "Panic" -> r
                   [] r.tag = "Err" -> MergeErr(r.err, old_entry, r.errors)
                   [] OTHER ->
                        IF r.merged THEN MergeOk(TRUE, r.old, r.errors)
                        ELSE MergeOk(FALSE, old_entry, r.errors)
        ELSE LET common_count == common_prefix_count(old_entry.key, new_entry.key)
             IN  IF common_count > 0
                 THEN MergeOk(TRUE,
                              pseudo_table_entry(old_entry, new_entry, common_count),
                              errors)
                 ELSE MergeOk(FALSE, old_entry, errors)

\* Entries::merge_entry
merge_entry(old_entry, new_entry, errors) ==
    LET old_key == old_entry.key
        new_key == new_entry.key
    IN  IF is_part_of(old_key, new_key)
        THEN CASE old_entry.value.kind = "Table" ->
                    merge_into_table(old_entry, new_entry, errors)
               [] old_entry.value.kind = "Array" ->
                    IF ~old_entry.value.tables
                    THEN MergeErr(ExpectedTableArray(old_entry.key, new_entry.key),
                                  old_entry, errors)
                    ELSE CASE new_entry.value.kind = "Table" ->
                                IF eq_keys(old_key, new_key) /\ new_entry.value.array
                                THEN MergeOk(TRUE,
                                        [old_entry EXCEPT !.value.items =
                                            Append(@, [new_entry.value EXCEPT
                                                          !.array = FALSE])],
                                        errors)
                                ELSE merge_into_last_item(old_entry, new_entry, errors)
                           [] new_entry.value.kind = "Empty" ->
                                MergePanic("empty value")
                           [] OTHER ->
                                merge_into_last_item(old_entry, new_entry, errors)
               [] old_entry.value.kind = "Empty" -> MergePanic("empty value")
               [] OTHER ->
                    MergeErr(ExpectedTable(old_entry.key, new_entry.key),
                             old_entry, errors)
        ELSE IF is_part_of(new_key, old_key)
        THEN LET r == merge_entry(new_entry, old_entry, errors)
             IN  CASE r.tag = "Panic" -> r
                   [] r.tag = "Err" -> MergeErr(r.err, old_entry, r.errors)
                   [] OTHER ->
                        IF r.merged THEN MergeOk(TRUE, r.old, r.errors)
                        ELSE MergeOk(FALSE, old_entry, r.errors)
        ELSE LET common_count == common_prefix_count(old_entry.key, new_entry.key)
             IN  IF common_count > 0
                 THEN MergeOk(TRUE,
                              pseudo_table_entry(old_entry, new_entry, common_count),
                              errors)
                 ELSE MergeOk(FALSE, old_entry, errors)

(***************************************************************************)
(* EntryNode::normalize and Entries::normalize.                            *)
(***************************************************************************)
\* normalize_step with the inner entry built from self.value after the
\* mem::take.
normalize_step_value_after_take(self) ==
    LET new_key   == KeyNode_prefix(self.key)
        inner_key == last(self.key)
        taken     == [self EXCEPT !.value = Empty]
        value     == self.value
        inner_entry == EntryNode(self.syntax, inner_key, taken.value)
    IN  [taken EXCEPT
            !.value = TableNode(SyntaxRef("KEY", self.syntax.pos),
                                is_table_array(value), TRUE, <<inner_entry>>),
            !.key = new_key]

\* One round of the loop of EntryNode::normalize: mem::take leaves Empty in
\* self.value until the pseudo-table is stored there.
normalize_step(self) ==
    LET new_key   == KeyNode_prefix(self.key)
        inner_key == last(self.key)
        taken     == [self EXCEPT !.value = Empty]
        value     == self.value
        inner_entry == EntryNode(self.syntax, inner_key, value)
    IN  [taken EXCEPT
            !.value = TableNode(SyntaxRef("KEY", self.syntax.pos),
                                is_table_array(value), TRUE, <<inner_entry>>),
            !.key = new_key]

RECURSIVE EntryNode_normalize(_)
EntryNode_normalize(self) ==
    IF key_count(self.key) > 1
    THEN EntryNode_normalize(normalize_step(self))
    ELSE self

\* Entries::normalize: every entry is normalized, then the entries of the
\* tables it holds, directly or in (nested) arrays.
RECURSIVE Entries_normalize(_), normalize_value(_)
Entries_normalize(self) ==
    [i \in 1..Len(self) |->
        LET entry == EntryNode_normalize(self[i])
        IN  [entry EXCEPT !.value = normalize_value(@)]]

\* normalize_value without the descent into the items of arrays.
normalize_value_tables_only(value) ==
    CASE value.kind = "Table" ->
            [value EXCEPT !.entries = Entries_normalize(@)]
      [] OTHER -> value

normalize_value(value) ==
    CASE value.kind = "Table" ->
            [value EXCEPT !.entries = Entries_normalize(@)]
      [] value.kind = "Array" ->
            [value EXCEPT !.items =
                [j \in 1..Len(value.items) |-> normalize_value(value.items[j])]]
      [] OTHER -> value

(***************************************************************************)
(* IndexMap: an insertion-ordered sequence of (key, value) pairs; the keys *)
(* are compared with KeyNode's PartialEq.                                  *)
(***************************************************************************)
RECURSIVE map_find_from(_, _, _)
\* The position of key in the map, 0 if it is not there.
map_find_from(map, key, i) ==
    IF i > Len(map) THEN 0
    ELSE IF KeyNode_eq(map[i].k, key) THEN i
    ELSE map_find_from(map, key, i + 1)

map_find(map, key) == map_find_from(map, key, 1)

contains_key(map, key) == map_find(map, key) # 0

\* IndexMap::insert: a new key is appended, the value of a key that is
\* there is replaced in its place.
map_insert(map, key, value) ==
    LET i == map_find(map, key)
    IN  IF i = 0 THEN Append(map, [k |-> key, v |-> value])
        ELSE [map EXCEPT ![i].v = value]

RECURSIVE rfind_eq_keys(_, _, _)
\* entries.iter().rev().find(|(k, _)| k.eq_keys(&key)): the position of the
\* entry inserted last among those whose key has the idents of key, 0 if none.
rfind_eq_keys(map, key, i) ==
    IF i = 0 THEN 0
    ELSE IF eq_keys(map[i].k, key) THEN i
    ELSE rfind_eq_keys(map, key, i - 1)

RECURSIVE flatten(_, _)
flatten(seqs, i) ==
    IF i > Len(seqs) THEN <<>> ELSE seqs[i] \o flatten(seqs, i + 1)

(***************************************************************************)
(* The documents.  IDENT tokens: a, b and c bare, a in single quotes.  A   *)
(* header may lack its key.                                                *)
(***************************************************************************)
IdentA == <<"a">>

IdentB == <<"b">>

IdentC == <<"c">>

IdentQuotedA == <<SQ, "a", SQ>>

\* { a.b = 1, a.a = 1 }
InlineTableSyntax ==
    SInlineTable(<<SEntry(<<IdentA, IdentB>>, SValue(SInteger)),
                   SEntry(<<IdentA, IdentA>>, SValue(SInteger))>>)

\* [ { a.b = 1 } ]
ArraySyntax ==
    SArray(<<SValue(SInlineTable(<<SEntry(<<IdentA, IdentB>>, SValue(SInteger))>>))>>)

HeaderKeys ==
    {<<IdentA>>, <<IdentB>>, <<IdentA, IdentB>>, <<IdentA, IdentA>>}

EntryKeys ==
    {<<IdentA>>, <<IdentB>>, <<IdentQuotedA, IdentB>>, <<IdentB, IdentA>>,
     <<IdentA, IdentC>>, <<IdentA, IdentB, IdentA>>}

\* A header without a KEY child, or whose KEY node has no IDENT token.
NoKey == <<>>

HeaderChildren ==
    {SHeader(k) : k \in HeaderKeys} \cup {SArrayHeader(k) : k \in HeaderKeys}
        \cup {SHeader(NoKey)}

EntryChildren ==
    {SEntry(k, SValue(SInteger)) : k \in EntryKeys}
        \cup {SEntry(k, SValue(InlineTableSyntax)) : k \in {<<IdentA>>, <<IdentB>>}}
        \cup {SEntry(<<IdentA>>, SValue(ArraySyntax))}

(***************************************************************************)
(* RootNode::cast as a state machine: one step per child of the ROOT node, *)
(* and one step for everything after the loop.                             *)
(***************************************************************************)
VARIABLES
    children,       \* the children of the ROOT node walked so far
    entries,        \* IndexMap<KeyNode, EntryNode>
    prefix,         \* Option<KeyNode>: the key of the current table header
    tables,         \* IndexMap<KeyNode, Vec<KeyNode>>
    errors,         \* Vec<Error>, as it is when errors.is_empty() is tested
    pc,             \* "walk", "done" or "panic"
    merged_entries, \* final_entries after merge, before normalize
    root_entries,   \* RootNode.entries
    root_errors,    \* RootNode.errors
    call,           \* a call of one function on its own: its name and arguments
    ret             \* Option: what the call returned

vars == <<children, entries, prefix, tables, errors, pc, merged_entries,
          root_entries, root_errors, call, ret>>

NoCall == [op |-> "none"]

Init ==
    /\ children = <<>>
    /\ entries = <<>>
    /\ prefix = None
    /\ tables = <<>>
    /\ errors = <<>>
    /\ pc = "walk"
    /\ merged_entries = <<>>
    /\ root_entries = <<>>
    /\ root_errors = <<>>
    /\ call = NoCall
    /\ ret = None

\* The TABLE_HEADER | TABLE_ARRAY_HEADER arm for the child at pos: the
\* entries, the errors and the prefix after it.
header_arm(child, pos, es, errs, pfx) ==
    LET unchanged == [entries |-> es, errors |-> errs, prefix |-> pfx]
        cast_t    == TableNode_cast(child, pos)
        cast_key  == KeyNode_cast(child.key)
    IN  IF cast_t = None THEN unchanged
        ELSE IF cast_key = None
        THEN [unchanged EXCEPT
                !.errors = Append(errs, Spanned(pos, "table has no key"))]
        ELSE
        LET t   == cast_t[1]
            key == cast_key[1]
            at  == rfind_eq_keys(es, key, Len(es))
            entry_of(k) == EntryNode(t.syntax, k, t)
        IN  IF at # 0
            THEN LET existing_key == es[at].k
                     existing     == es[at].v
                     existing_table_array == is_table_array(existing.value)
                 IN  IF existing_table_array /\ ~is_part_of_array(t)
                     THEN [entries |-> es,
                           errors |-> Append(errs,
                                        ExpectedTableArray(existing.key, key)),
                           prefix |-> Some(key)]
                     ELSE IF ~existing_table_array /\ is_part_of_array(t)
                     THEN [entries |-> es,
                           errors |-> Append(errs,
                                        ExpectedTableArray(key, existing.key)),
                           prefix |-> Some(key)]
                     ELSE IF ~existing_table_array /\ ~is_part_of_array(t)
                     THEN [entries |-> es,
                           errors |-> Append(errs,
                                        DuplicateKey(existing.key, key)),
                           prefix |-> Some(key)]
                     ELSE LET key2 == with_index(key, existing_key.index + 1)
                          IN  [entries |-> map_insert(es, key2, entry_of(key2)),
                               errors |-> errs,
                               prefix |-> Some(key2)]
            ELSE [entries |-> map_insert(es, key, entry_of(key)),
                  errors |-> errs,
                  prefix |-> Some(key)]

\* The ENTRY arm for the child at pos: the entries, the tables and the
\* errors after it.
entry_arm(child, pos, es, tbls, errs, pfx) ==
    LET cast_e == EntryNode_cast(child, pos)
    IN  IF cast_e = None
        THEN [entries |-> es, tables |-> tbls, errors |-> errs]
        ELSE
        LET entry == cast_e[1]
            insert_key == IF pfx = None THEN entry.key
                          ELSE with_prefix(entry.key, pfx[1])
            tbls2 == IF pfx = None THEN tbls
                     ELSE LET i == map_find(tbls, pfx[1])
                          IN  IF i = 0
                              THEN map_insert(tbls, pfx[1], <<entry.key>>)
                              ELSE [tbls EXCEPT ![i].v = Append(@, entry.key)]
            at == map_find(es, insert_key)
        IN  IF at # 0
            THEN [entries |-> es, tables |-> tbls2,
                  errors |-> Append(errs, DuplicateKey(es[at].v.key, entry.key))]
            ELSE [entries |-> map_insert(es, insert_key, entry),
                  tables |-> tbls2, errors |-> errs]

WalkHeader(child) ==
    /\ pc = "walk"
    /\ Len(children) < MaxChildren
    /\ \E r \in {header_arm(child, Len(children) + 1, entries, errors, prefix)} :
           /\ entries' = r.entries
           /\ errors' = r.errors
           /\ prefix' = r.prefix
    /\ children' = Append(children, child)
    /\ UNCHANGED <<tables, pc, merged_entries, root_entries, root_errors>>
    /\ UNCHANGED <<call, ret>>

WalkEntry(child) ==
    /\ pc = "walk"
    /\ Len(children) < MaxChildren
    /\ \E r \in {entry_arm(child, Len(children) + 1, entries, tables, errors, prefix)} :
           /\ entries' = r.entries
           /\ tables' = r.tables
           /\ errors' = r.errors
    /\ children' = Append(children, child)
    /\ UNCHANGED <<prefix, pc, merged_entries, root_entries, root_errors>>
    /\ UNCHANGED <<call, ret>>

\* if let Some(p) = prefix { if !tables.contains_key(&p) { insert } }
tables_with_prefix(tbls, pfx) ==
    IF pfx = None THEN tbls
    ELSE IF ~contains_key(tbls, pfx[1]) THEN map_insert(tbls, pfx[1], <<>>)
    ELSE tbls

\* The errors of the search for mixed top level tables and dotted keys.
mixed_errors(tbls) ==
    flatten([i \in 1..Len(tbls) |->
        flatten([j \in 1..Len(tbls[i].v) |->
            flatten([l \in 1..Len(tbls) |->
                LET k  == tbls[i].k
                    k2 == tbls[l].k
                IN  IF k.index # k2.index \/ KeyNode_eq(k, k2)
                       \/ key_count(k2) < key_count(k)
                    THEN <<>>
                    ELSE IF is_part_of(k2, with_prefix(tbls[i].v[j], k))
                    THEN <<DuplicateKey(k, k2)>>
                    ELSE <<>>], 1)], 1)], 1)

RECURSIVE grouped_by_index_from(_, _, _)
\* The fold that groups the entries of the map by the index of their key.
grouped_by_index_from(map, i, all) ==
    IF i > Len(map) THEN all
    ELSE LET k == map[i].k
         IN  IF Len(all) < k.index + 1
             THEN grouped_by_index_from(map, i + 1, Append(all, <<map[i]>>))
             ELSE grouped_by_index_from(map, i + 1,
                      [all EXCEPT ![k.index + 1] = Append(@, map[i])])

grouped_by_index(map) == grouped_by_index_from(map, 1, <<>>)

RECURSIVE find_table_array_from(_, _, _)
\* group.iter().skip(i).find(..): the position of the first entry from
\* position i on that is an array-of-tables header whose key is part of k.
find_table_array_from(group, k, i) ==
    IF i > Len(group) THEN 0
    ELSE IF is_table(group[i].v.value)
            /\ is_part_of(group[i].k, k)
            /\ is_part_of_array(group[i].v.value)
    THEN i
    ELSE find_table_array_from(group, k, i + 1)

\* The errors of the loop labelled 'outer, which is left at the end of the
\* first round of its inner loop.
group_errors(map) ==
    LET groups == grouped_by_index(map)
    IN  IF Len(groups) = 0 THEN <<>>
        ELSE LET group == groups[1]
                 k     == group[1].k
                 e     == group[1].v
             IN  IF is_table_array(e.value) THEN <<>>
                 ELSE LET at == find_table_array_from(group, k, 1)
                      IN  IF at # 0
                          THEN <<ExpectedTableArray(group[at].k, k)>>
                          ELSE <<>>

\* Entries::from_map without e.key = k.
from_map_keeps_entry_key(map) == [i \in 1..Len(map) |-> map[i].v]

\* Entries::from_map
from_map(map) == [i \in 1..Len(map) |-> [map[i].v EXCEPT !.key = map[i].k]]

\* Everything after the loop over the children.
Finish ==
    /\ pc = "walk"
    /\ \E tbls \in {tables_with_prefix(tables, prefix)} :
       \E errs \in {errors \o mixed_errors(tbls) \o group_errors(entries)} :
       \E final \in {from_map(entries)} :
           /\ tables' = tbls
           /\ errors' = errs
           /\ IF errs = <<>>
              THEN \E m \in {merge(final, errs)} :
                   IF m.panic
                   THEN /\ pc' = "panic"
                        /\ UNCHANGED <<merged_entries, root_entries, root_errors>>
                   ELSE /\ pc' = "done"
                        /\ merged_entries' = m.entries
                        /\ root_entries' = Entries_normalize(m.entries)
                        /\ root_errors' = m.errors
              ELSE /\ pc' = "done"
                   /\ merged_entries' = final
                   /\ root_entries' = final
                   /\ root_errors' = errs
    /\ UNCHANGED <<children, entries, prefix>>
    /\ UNCHANGED <<call, ret>>

Next ==
    \/ \E child \in HeaderChildren : WalkHeader(child)
    \/ \E child \in EntryChildren : WalkEntry(child)
    \/ Finish

Spec == Init /\ [][Next]_vars

(***************************************************************************)
(* The functions of KeyNode on their own: one call on a key, or on a key   *)
(* and another key.                                                        *)
(***************************************************************************)
\* The ROOT node is not walked in the specifications of single functions.
RootUntouched ==
    /\ children = <<>> /\ entries = <<>> /\ prefix = None /\ tables = <<>>
    /\ errors = <<>> /\ pc = "call" /\ merged_entries = <<>>
    /\ root_entries = <<>> /\ root_errors = <<>>

BS == "\\"

\* "'a'": a basic-string key whose content is 'a'.
IdentDoubleQuotedSingleQuotedA == <<DQ, SQ, "a", SQ, DQ>>

\* "a\"": a basic-string key whose content ends with an escaped quote.
IdentEscapedQuoteA == <<DQ, "a", BS, DQ, DQ>>

IdentTexts ==
    {IdentA, IdentB, IdentQuotedA, IdentDoubleQuotedSingleQuotedA,
     IdentEscapedQuoteA}

\* The keys KeyNode::cast and with_index make: at least one ident.
Keys ==
    {KeyNode(ids, ix) :
        ids \in UNION {[1..n -> IdentTexts] : n \in 1..MaxIdents},
        ix \in 0..1}

InitKey ==
    /\ RootUntouched
    /\ \/ \E k \in Keys : call = [op |-> "keys_str", self |-> k]
       \/ \E k \in Keys, o \in Keys :
             call = [op |-> "compare", self |-> k, other |-> o]
       \/ \E k \in Keys, o \in Keys :
             call = [op |-> "without_prefix", self |-> k, other |-> o]
    /\ ret = None

UnchangedByCall ==
    UNCHANGED <<children, entries, prefix, tables, errors, pc,
                merged_entries, root_entries, root_errors, call>>

CallKeysStr ==
    /\ call.op = "keys_str"
    /\ ret = None
    /\ ret' = Some(keys_str(call.self))
    /\ UnchangedByCall

\* is_part_of both ways, eq_keys, == and the two hashes of a pair of keys.
CallCompare ==
    /\ call.op = "compare"
    /\ ret = None
    /\ ret' = Some([is_part_of    |-> is_part_of(call.self, call.other),
                    is_part_of_rev |-> is_part_of(call.other, call.self),
                    eq_keys       |-> eq_keys(call.self, call.other),
                    eq            |-> KeyNode_eq(call.self, call.other),
                    hash_self     |-> KeyNode_hash(call.self),
                    hash_other    |-> KeyNode_hash(call.other)])
    /\ UnchangedByCall

CallWithoutPrefix ==
    /\ call.op = "without_prefix"
    /\ ret = None
    /\ ret' = Some(without_prefix(call.self, call.other))
    /\ UnchangedByCall

NextKey == CallKeysStr \/ CallCompare \/ CallWithoutPrefix

SpecKey == InitKey /\ [][NextKey]_vars

(***************************************************************************)
(* Entries::merge_entry on its own: one call on an old entry, as merge     *)
(* keeps it in new_entries, and a new entry, as merge takes it from the    *)
(* flat list.                                                              *)
(***************************************************************************)
MergeKeys ==
    {<<IdentA>>, <<IdentB>>, <<IdentA, IdentB>>, <<IdentQuotedA, IdentC>>,
     <<IdentA, IdentB, IdentA>>}

\* [ 1 ]
ScalarArraySyntax == SArray(<<SValue(SInteger)>>)

\* The values of the entries of the flat list: what the casts of entries
\* and headers yield.
NewValues ==
    {ValueNode_cast(SValue(v), 2)[1] :
        v \in {SInteger, ScalarArraySyntax, ArraySyntax, InlineTableSyntax}}
    \cup {TableNode_cast(SHeader(<<IdentA>>), 2)[1],
          TableNode_cast(SArrayHeader(<<IdentA>>), 2)[1]}

\* The values of the entries of new_entries: those of the flat list as they
\* are inserted, and a table that was merged into.
OldValues ==
    {ValueNode_cast(SValue(v), 1)[1] :
        v \in {SInteger, ScalarArraySyntax, ArraySyntax, InlineTableSyntax}}
    \cup {array_of_tables_value(TableNode_cast(SHeader(<<IdentA>>), 1)[1]),
          array_of_tables_value(TableNode_cast(SArrayHeader(<<IdentA>>), 1)[1]),
          TableNode(SyntaxRef("TABLE_HEADER", 1), FALSE, FALSE,
                    <<EntryNode(SyntaxRef("ENTRY", 1), KeyNode(<<IdentC>>, 0),
                                IntegerNode(SyntaxRef("INTEGER", 1)))>>)}

InitMergeEntry ==
    /\ RootUntouched
    /\ \E ok \in MergeKeys, nk \in MergeKeys, ov \in OldValues, nv \in NewValues :
          call = [op |-> "merge_entry",
                  old_entry |-> EntryNode(SyntaxRef("ENTRY", 1), KeyNode(ok, 0), ov),
                  new_entry |-> EntryNode(SyntaxRef("ENTRY", 2), KeyNode(nk, 0), nv)]
    /\ ret = None

CallMergeEntry ==
    /\ call.op = "merge_entry"
    /\ ret = None
    /\ ret' = Some(merge_entry(call.old_entry, call.new_entry, <<>>))
    /\ UnchangedByCall

NextMergeEntry == CallMergeEntry

SpecMergeEntry == InitMergeEntry /\ [][NextMergeEntry]_vars

(***************************************************************************)
(* The returned tree, as the properties below look at it.                  *)
(***************************************************************************)
RECURSIVE EntryLists(_), ValueEntryLists(_)
\* Every sequence of sibling entries of a tree: the given entries and the
\* entries of every table below them, inline tables and the tables in
\* arrays included.
EntryLists(es) ==
    {es} \cup UNION {ValueEntryLists(es[i].value) : i \in 1..Len(es)}

ValueEntryLists(v) ==
    CASE v.kind = "Table" -> EntryLists(v.entries)
      [] v.kind = "Array" ->
            UNION {ValueEntryLists(v.items[j]) : j \in 1..Len(v.items)}
      [] OTHER -> {}

RECURSIVE TreeValues(_), ValueValues(_)
\* Every value of a tree.
TreeValues(es) == UNION {ValueValues(es[i].value) : i \in 1..Len(es)}

ValueValues(v) ==
    {v} \cup CASE v.kind = "Table" -> TreeValues(v.entries)
               [] v.kind = "Array" ->
                     UNION {ValueValues(v.items[j]) : j \in 1..Len(v.items)}
               [] OTHER -> {}

Returned == pc = "done"

\* No error up to the test of errors.is_empty(): merge and normalize ran.
WalkErrorFree == errors = <<>>

\* Every key of the tree has exactly one ident.
NoDottedKey(es) ==
    \A list \in EntryLists(es) : \A i \in 1..Len(list) : key_count(list[i].key) = 1

\* C1, as claimed: after RootNode construction, whether or not errors were
\* reported, every entry key of the returned tree, at the root and under
\* every table, has exactly one ident.
C1_NoDottedKeyEver == Returned => NoDottedKey(root_entries)

\* C1, amended: after a RootNode construction in which the walk and the
\* checks after it reported no error, every entry key of the returned tree,
\* at the root and under every table (inline tables and tables in arrays
\* included), has exactly one ident, also when merge reported errors.
C1_NoDottedKeyAfterNormalize ==
    (Returned /\ WalkErrorFree) => NoDottedKey(root_entries)

\* A returned tree whose merged entries had dotted keys at the root, in an
\* inline table and in a table of an array, and whose merge reported an error.
C1_Witness ==
    /\ Returned /\ WalkErrorFree
    /\ root_errors # <<>>
    /\ \E i \in 1..Len(merged_entries) : key_count(merged_entries[i].key) > 1
    /\ \E v \in TreeValues(merged_entries) :
          /\ v.kind = "Table" /\ is_inline(v)
          /\ \E i \in 1..Len(v.entries) : key_count(v.entries[i].key) > 1
    /\ \E v \in TreeValues(merged_entries) :
          /\ v.kind = "Array"
          /\ \E j \in 1..Len(v.items) :
                /\ v.items[j].kind = "Table"
                /\ \E i \in 1..Len(v.items[j].entries) :
                      key_count(v.items[j].entries[i].key) > 1

\* No two sibling entries have the same unquoted idents.
NoDuplicateSiblings(es) ==
    \A list \in EntryLists(es) :
        \A i, j \in 1..Len(list) :
            i < j => keys_str(list[i].key) # keys_str(list[j].key)

\* C2, as claimed: after RootNode construction no two sibling entries, at
\* any level of the returned tree, have the same sequence of unquoted idents.
C2_NoDuplicateSiblings == Returned => NoDuplicateSiblings(root_entries)

(***************************************************************************)
(* The source document, read independently of the walker: the unquoted     *)
(* fully-qualified key of every header and entry, in source order.         *)
(***************************************************************************)
Unquoted(idents) == [i \in 1..Len(idents) |-> ident_str(idents[i])]

IsHeader(child) == child.kind \in {"TABLE_HEADER", "TABLE_ARRAY_HEADER"}

\* The position of the header the child at pos stands under, 0 if none; a
\* header without a key is skipped and opens no table.
HeaderOf(doc, pos) ==
    LET before == {i \in 1..(pos - 1) : IsHeader(doc[i]) /\ doc[i].key # NoKey}
    IN  IF before = {} THEN 0 ELSE CHOOSE i \in before : \A j \in before : j <= i

SourceKey(doc, pos) ==
    IF IsHeader(doc[pos]) \/ HeaderOf(doc, pos) = 0
    THEN Unquoted(doc[pos].key)
    ELSE Unquoted(doc[HeaderOf(doc, pos)].key) \o Unquoted(doc[pos].key)

IsPrefix(p, k) == Len(p) <= Len(k) /\ SubSeq(k, 1, Len(p)) = p

RECURSIVE TablePaths(_, _), ValueTablePaths(_, _)
\* The dotted paths of the entries of a tree that lie in tables built by
\* merge and normalize: the root, the tables of headers, pseudo-tables and
\* the tables of arrays of tables.  Inline values are not entered.
TablePaths(es, path) ==
    UNION {LET p == path \o keys_str(es[i].key)
           IN  {p} \cup ValueTablePaths(es[i].value, p) : i \in 1..Len(es)}

ValueTablePaths(v, path) ==
    CASE v.kind = "Table" /\ ~is_inline(v) -> TablePaths(v.entries, path)
      [] v.kind = "Array" /\ v.tables ->
            UNION {ValueTablePaths(v.items[j], path) : j \in 1..Len(v.items)}
      [] OTHER -> {}

ErrorFree == Returned /\ root_errors = <<>>

\* C3, as claimed: in an error-free result a table at the dotted path P has
\* a child with key x only if some source entry or header has a
\* fully-qualified key that starts with P.x; a header or entry whose key
\* equals the key of a table is never inserted as a child of that table.
C3_ChildrenComeFromSource ==
    ErrorFree =>
        \A p \in TablePaths(root_entries, <<>>) :
            \E pos \in 1..Len(children) : IsPrefix(p, SourceKey(children, pos))

\* C4, as claimed: after an error-free construction every array-of-tables
\* header is an item of an array with tables = true, and no table of the
\* returned tree has is_part_of_array() = true.
C4_ArrayHeadersBecomeArrayItems ==
    ErrorFree =>
        /\ \A v \in TreeValues(root_entries) :
              v.kind = "Table" => ~is_part_of_array(v)
        /\ \A pos \in 1..Len(children) :
              children[pos].kind = "TABLE_ARRAY_HEADER" =>
                  \E v \in TreeValues(root_entries) :
                      /\ v.kind = "Array" /\ v.tables
                      /\ \E j \in 1..Len(v.items) :
                            v.items[j].syntax = SyntaxRef("TABLE_ARRAY_HEADER", pos)

\* C5: in every returned tree, every array with tables = true is non-empty
\* and each of its items is a table with array = false.
C5_ArraysOfTablesHoldPlainTables ==
    Returned =>
        \A v \in TreeValues(root_entries) :
            (v.kind = "Array" /\ v.tables) =>
                /\ Len(v.items) > 0
                /\ \A j \in 1..Len(v.items) :
                      v.items[j].kind = "Table" /\ ~v.items[j].array

\* A returned tree with an array of two tables, the second one with entries,
\* made from two array-of-tables headers with a dotted key.
C5_Witness ==
    /\ Returned
    /\ \E v \in TreeValues(root_entries) :
          /\ v.kind = "Array" /\ v.tables
          /\ Len(v.items) = 2
          /\ v.items[2].entries # <<>>
    /\ \E pos \in 1..Len(children) :
          children[pos].kind = "TABLE_ARRAY_HEADER" /\ Len(children[pos].key) > 1

(***************************************************************************)
(* Inline tables.                                                          *)
(***************************************************************************)
IsInlineTableEntry(child) ==
    child.kind = "ENTRY" /\ child.value.child.kind = "INLINE_TABLE"

\* Every value the entries of the document are cast to, nested ones included.
CastValues(doc) ==
    UNION {LET e == EntryNode_cast(doc[pos], pos)
           IN  IF e = None THEN {} ELSE ValueValues(e[1].value) :
           pos \in {q \in 1..Len(doc) : doc[q].kind = "ENTRY"}}

InlineTables(values) == {v \in values : v.kind = "Table" /\ is_inline(v)}

\* Merge added nothing to an inline table, and normalize only rewrote it.
InlineTablesAsCast ==
    /\ InlineTables(TreeValues(merged_entries)) \subseteq InlineTables(CastValues(children))
    /\ InlineTables(TreeValues(root_entries)) \subseteq
          {normalize_value(v) : v \in InlineTables(CastValues(children))}
              \cup InlineTables(CastValues(children))

\* A later entry or header extends the key of an inline table, and no
\* array-of-tables header between the two starts a new element of an array
\* the inline table lies in.
InlineTableExtendedInPlace(doc) ==
    \E p, q \in 1..Len(doc) :
        /\ p < q
        /\ IsInlineTableEntry(doc[p])
        /\ IsPrefix(SourceKey(doc, p), SourceKey(doc, q))
        /\ Len(SourceKey(doc, p)) < Len(SourceKey(doc, q))
        /\ \A r \in (p + 1)..(q - 1) :
              ~(/\ doc[r].kind = "TABLE_ARRAY_HEADER"
                /\ IsPrefix(SourceKey(doc, r), SourceKey(doc, p)))

\* C6, as claimed, read in its favour (a later key that belongs to another
\* element of an array of tables does not count as extending the inline
\* table): for any input in which a later entry or header has a
\* fully-qualified key that extends the key of an inline table, the error
\* list is not empty and the inline table of the returned tree holds exactly
\* the entries cast from its own syntax node.
C6_InlineTablesAreClosed ==
    Returned =>
        /\ InlineTableExtendedInPlace(children) => root_errors # <<>>
        /\ InlineTablesAsCast

(***************************************************************************)
(* C7: an inline table a, then a header [a.x], then an entry under it.     *)
(***************************************************************************)
IsC7Doc(doc) ==
    /\ Len(doc) = 3
    /\ IsInlineTableEntry(doc[1]) /\ Len(doc[1].key) = 1
    /\ doc[2].kind = "TABLE_HEADER" /\ Len(doc[2].key) = 2
    /\ Unquoted(doc[2].key)[1] = Unquoted(doc[1].key)[1]
    /\ doc[3].kind = "ENTRY"

\* The inline table entry, as it is cast from the first child.
C7_InlineEntry == EntryNode_cast(children[1], 1)[1]

C7_Remains ==
    /\ merged_entries = <<C7_InlineEntry>>
    /\ root_entries = <<[C7_InlineEntry EXCEPT !.value = normalize_value(@)]>>

\* C7, as claimed: construction reports exactly one error,
\* InlineTable{target = a, key = a.x}, and a remains the inline table with
\* its original entries.
C7_OneInlineTableError ==
    (Returned /\ IsC7Doc(children)) =>
        /\ root_errors = <<InlineTable(KeyNode(children[1].key, 0),
                                       KeyNode(children[2].key, 0))>>
        /\ C7_Remains

\* C7, amended: construction reports exactly two errors, first
\* InlineTable{target = a, key = a.x} for the header and then
\* InlineTable{target = a, key = a.x.y} for the entry y under it, and a
\* remains the inline table with its original entries.
C7_TwoInlineTableErrors ==
    (Returned /\ IsC7Doc(children)) =>
        /\ root_errors =
              <<InlineTable(KeyNode(children[1].key, 0), KeyNode(children[2].key, 0)),
                InlineTable(KeyNode(children[1].key, 0),
                            KeyNode(children[2].key \o children[3].key, 0))>>
        /\ C7_Remains

C7_Witness ==
    /\ Returned /\ IsC7Doc(children)
    /\ Len(root_errors) = 2
    /\ is_inline(root_entries[1].value)

(***************************************************************************)
(* C8: n >= 1 headers [[a]] with the same key, each followed by entries    *)
(* with single-ident keys that differ from one another.                    *)
(***************************************************************************)
HeaderPositions(doc) == {pos \in 1..Len(doc) : IsHeader(doc[pos])}

\* The positions of the entries that stand under the header at pos.
EntriesUnder(doc, pos) ==
    {q \in 1..Len(doc) : doc[q].kind = "ENTRY" /\ HeaderOf(doc, q) = pos}

\* The elements of a set of numbers in increasing order.
RECURSIVE Sorted(_)
Sorted(set) ==
    IF set = {} THEN <<>>
    ELSE LET least == CHOOSE x \in set : \A y \in set : x <= y
         IN  <<least>> \o Sorted(set \ {least})

IsC8Doc(doc) ==
    /\ Len(doc) >= 1
    /\ doc[1].kind = "TABLE_ARRAY_HEADER" /\ Len(doc[1].key) = 1
    /\ \A pos \in HeaderPositions(doc) :
          /\ doc[pos].kind = "TABLE_ARRAY_HEADER"
          /\ Unquoted(doc[pos].key) = Unquoted(doc[1].key)
          /\ \A q, r \in EntriesUnder(doc, pos) :
                /\ Len(doc[q].key) = 1
                /\ q # r => Unquoted(doc[q].key) # Unquoted(doc[r].key)

\* The entries of the table of the header at pos, as the claim has them.
C8_ExpectedEntries(doc, pos) ==
    LET under == Sorted(EntriesUnder(doc, pos))
    IN  [i \in 1..Len(under) |->
            LET e == EntryNode_cast(doc[under[i]], under[i])[1]
            IN  [e EXCEPT !.value = normalize_value(@)]]

\* C8: for n >= 1 successive [[a]] headers with the same key, each followed
\* by its own entries, construction reports no error and yields one entry a
\* whose value is an array with tables = true of exactly n tables, the i-th
\* of which holds exactly the entries declared under the i-th header, in
\* source order.
C8_ArrayOfTablesPerHeader ==
    (pc # "walk" /\ IsC8Doc(children)) =>
        LET headers == Sorted(HeaderPositions(children))
        IN  /\ Returned
            /\ root_errors = <<>>
            /\ Len(root_entries) = 1
            /\ keys_str(root_entries[1].key) = Unquoted(children[1].key)
            /\ root_entries[1].value.kind = "Array"
            /\ root_entries[1].value.tables
            /\ Len(root_entries[1].value.items) = Len(headers)
            /\ \A i \in 1..Len(headers) :
                  LET item == root_entries[1].value.items[i]
                  IN  /\ item.kind = "Table"
                      /\ item.syntax = SyntaxRef("TABLE_ARRAY_HEADER", headers[i])
                      /\ item.entries = C8_ExpectedEntries(children, headers[i])

\* Two [[a]] headers, each with an entry of its own.
C8_Witness ==
    /\ Returned /\ IsC8Doc(children)
    /\ Len(children) = 4
    /\ HeaderPositions(children) = {1, 3}
    /\ Len(root_entries[1].value.items) = 2
    /\ Len(root_entries[1].value.items[1].entries) = 1
    /\ Len(root_entries[1].value.items[2].entries) = 1

(***************************************************************************)
(* C9: the order of the entries.                                           *)
(***************************************************************************)
\* The source keys with the mark of an array-of-tables header; a header
\* without a key has no source key.
Src(doc) ==
    LET keyed == Sorted({pos \in 1..Len(doc) : doc[pos].key # NoKey})
    IN  [n \in 1..Len(keyed) |->
            [key |-> SourceKey(doc, keyed[n]),
             ah  |-> doc[keyed[n]].kind = "TABLE_ARRAY_HEADER"]]

\* The elements of a sequence in the order of their first appearance.
RECURSIVE Dedup(_)
Dedup(seq) ==
    IF seq = <<>> THEN <<>>
    ELSE LET before == Dedup(Take(seq, Len(seq) - 1))
             x      == seq[Len(seq)]
         IN  IF \E i \in 1..Len(before) : before[i] = x THEN before
             ELSE Append(before, x)

\* The place where the ident x is first introduced in src, 0 if nowhere.
FirstPos(src, x) ==
    LET at == {i \in 1..Len(src) : src[i].key[1] = x}
    IN  IF at = {} THEN 0 ELSE CHOOSE i \in at : \A j \in at : i <= j

\* The source keys below the ident x from position from on, without x.
RECURSIVE Under(_, _, _)
Under(src, x, from) ==
    IF from > Len(src) THEN <<>>
    ELSE IF src[from].key[1] = x /\ Len(src[from].key) > 1
    THEN <<[src[from] EXCEPT !.key = Tail(@)]>> \o Under(src, x, from + 1)
    ELSE Under(src, x, from + 1)

\* The places of the headers [[x]] in src.
ElementStarts(src, x) == Sorted({i \in 1..Len(src) : src[i].key = <<x>> /\ src[i].ah})

\* The source keys of the j-th element of the array of tables x.
ElementSrc(src, x, j) ==
    LET starts == ElementStarts(src, x)
    IN  IF j > Len(starts) THEN <<>>
        ELSE LET end == IF j < Len(starts) THEN starts[j + 1] - 1 ELSE Len(src)
             IN  Under(SubSeq(src, starts[j], end), x, 1)

EntryIdent(e) == keys_str(e.key)[1]

RECURSIVE OrderKept(_, _)
\* No entry stands before an entry that was introduced earlier, here and in
\* every table below.
OrderKept(es, src) ==
    /\ \A i, j \in 1..Len(es) :
          (/\ i < j
           /\ FirstPos(src, EntryIdent(es[i])) # 0
           /\ FirstPos(src, EntryIdent(es[j])) # 0)
              => FirstPos(src, EntryIdent(es[i])) < FirstPos(src, EntryIdent(es[j]))
    /\ \A i \in 1..Len(es) :
          LET v == es[i].value
          IN  CASE v.kind = "Table" /\ ~is_inline(v) ->
                      OrderKept(v.entries, Under(src, EntryIdent(es[i]), 1))
                [] v.kind = "Array" /\ v.tables ->
                      \A j \in 1..Len(v.items) :
                          v.items[j].kind = "Table" =>
                              OrderKept(v.items[j].entries,
                                        ElementSrc(src, EntryIdent(es[i]), j))
                [] OTHER -> TRUE

\* C9: in an error-free result the order of the top-level entries is the
\* source order in which their first ident first appeared in a
\* fully-qualified entry or header key, and within every merged table the
\* children stand in the order in which they were first introduced.
C9_OrderIsSourceOrder ==
    ErrorFree =>
        /\ [i \in 1..Len(root_entries) |-> EntryIdent(root_entries[i])]
              = Dedup([n \in 1..Len(Src(children)) |-> Src(children)[n].key[1]])
        /\ OrderKept(root_entries, Src(children))

\* An error-free result with two top-level entries, the first a table whose
\* second child was introduced after the second top-level entry.
C9_Witness ==
    /\ ErrorFree
    /\ Len(root_entries) = 2
    /\ root_entries[1].value.kind = "Table"
    /\ Len(root_entries[1].value.entries) = 2
    /\ \E p, q \in 1..Len(children) :
          /\ p < q
          /\ \A r \in 1..q : children[r].key # NoKey
          /\ SourceKey(children, p)[1] = EntryIdent(root_entries[2])
          /\ Len(SourceKey(children, q)) > 1
          /\ SourceKey(children, q)[1] = EntryIdent(root_entries[1])
          /\ SourceKey(children, q)[2] = EntryIdent(root_entries[1].value.entries[2])
          /\ FirstPos(Under(Src(children), EntryIdent(root_entries[1]), 1),
                      EntryIdent(root_entries[1].value.entries[2])) # 0
          /\ \A r \in 1..(q - 1) :
                ~IsPrefix(SubSeq(SourceKey(children, q), 1, 2), SourceKey(children, r))

(***************************************************************************)
(* C10: a header that meets an entry with its key.                         *)
(***************************************************************************)
\* The entries of the map whose key has the unquoted idents of the idents.
Matching(map, idents) ==
    {i \in 1..Len(map) : keys_str(map[i].k) = Unquoted(idents)}

Latest(set) == CHOOSE i \in set : \A j \in set : j <= i

\* C10: when the root walker meets a header whose key eq_keys the most
\* recently inserted matching entry and the two are not both array-of-tables
\* headers, it appends exactly one error (ExpectedTableArray if exactly one
\* of them is an array-of-tables header, DuplicateKey if neither is), leaves
\* the entries map unchanged, and still sets prefix to the key of this
\* header, so that the following entries are qualified with it.
C10_HeaderConflict ==
    [][LET n        == Len(children')
           child    == children'[n]
           matching == Matching(entries, child.key)
           existing == entries[Latest(matching)].v
           existing_ah == existing.value.kind = "Table" /\ existing.value.array
           this_ah  == child.kind = "TABLE_ARRAY_HEADER"
       IN  /\ (/\ pc' = "walk" /\ n = Len(children) + 1
               /\ IsHeader(child)
               /\ matching # {}
               /\ ~(existing_ah /\ this_ah))
                  => /\ Len(errors') = Len(errors) + 1
                     /\ Take(errors', Len(errors)) = errors
                     /\ errors'[Len(errors')].type =
                            IF existing_ah # this_ah THEN "ExpectedTableArray"
                            ELSE "DuplicateKey"
                     /\ entries' = entries
                     /\ prefix' = Some(KeyNode(child.key, 0))
           /\ (/\ pc' = "walk" /\ n = Len(children) + 1
               /\ child.kind = "ENTRY"
               /\ prefix # None)
                  => \E i \in 1..Len(tables') :
                        /\ tables'[i].k = prefix[1]
                        /\ tables'[i].v # <<>>
                        /\ tables'[i].v[Len(tables'[i].v)] = KeyNode(child.key, 0)
      ]_vars

\* A plain header has just met the array-of-tables header with its key, and
\* an entry was then walked under it.
C10_Witness ==
    /\ pc = "walk"
    /\ Len(children) = 3
    /\ children[1].kind = "TABLE_ARRAY_HEADER"
    /\ children[2].kind = "TABLE_HEADER"
    /\ Unquoted(children[2].key) = Unquoted(children[1].key)
    /\ children[3].kind = "ENTRY"
    /\ Len(errors) = 1 /\ errors[1].type = "ExpectedTableArray"
    /\ prefix = Some(KeyNode(children[2].key, 0))
    /\ Len(entries) = 2
    /\ entries[2].k = KeyNode(children[2].key \o children[3].key, 0)

(***************************************************************************)
(* C11: a header without a key.                                            *)
(***************************************************************************)
\* The step just taken walked a header that has no key.
WalkedHeaderWithoutKey ==
    /\ pc' = "walk"
    /\ Len(children') = Len(children) + 1
    /\ IsHeader(children'[Len(children')])
    /\ children'[Len(children')].key = NoKey

\* C11, as claimed: when a TABLE_HEADER or TABLE_ARRAY_HEADER child has no
\* key, the root walker appends a Spanned error with the message "table has
\* no key" covering the header, skips the header, and leaves prefix and
\* entries unchanged.
C11_HeaderWithoutKeyIsReported ==
    [][WalkedHeaderWithoutKey =>
          /\ errors' = Append(errors,
                              Spanned(Len(children'), "table has no key"))
          /\ prefix' = prefix
          /\ entries' = entries]_vars

(***************************************************************************)
(* C12: what is returned with and without errors before merge.             *)
(***************************************************************************)
\* The ident tokens of the fully-qualified key of the child at pos: those of
\* the header it stands under, then its own.
RawSourceKey(doc, pos) ==
    IF IsHeader(doc[pos]) \/ HeaderOf(doc, pos) = 0
    THEN doc[pos].key
    ELSE doc[HeaderOf(doc, pos)].key \o doc[pos].key

\* The entries of the walker's map, in insertion order, each under the key
\* it is stored with.
FlatMap == [i \in 1..Len(entries) |-> [entries[i].v EXCEPT !.key = entries[i].k]]

\* C12: if the walk and the two checks after it produced at least one error,
\* neither merge nor normalize runs: the returned entries are the walker's
\* flat map in insertion order, each entry with its fully-qualified key, and
\* the returned errors are the errors of the walk; if they produced none,
\* merge runs and normalize runs after it, also when merge appended errors.
C12_MergeAndNormalizeOnlyWithoutErrors ==
    Returned =>
        IF errors # <<>>
        THEN /\ root_entries = FlatMap
             /\ \A i \in 1..Len(root_entries) :
                   root_entries[i].key.idents =
                       RawSourceKey(children, root_entries[i].syntax.pos)
             /\ root_errors = errors
        ELSE /\ merged_entries = merge(FlatMap, <<>>).entries
             /\ root_errors = merge(FlatMap, <<>>).errors
             /\ root_entries = Entries_normalize(merged_entries)
             /\ NoDottedKey(root_entries)

\* A flat map returned with an error of the walk, holding an entry that
\* stands under a header.
C12_Witness ==
    /\ Returned
    /\ errors # <<>>
    /\ root_errors = errors
    /\ \E i \in 1..Len(root_entries) :
          /\ root_entries[i].syntax.kind = "ENTRY"
          /\ HeaderOf(children, root_entries[i].syntax.pos) # 0
          /\ key_count(root_entries[i].key) > 1

(***************************************************************************)
(* C13: the Empty placeholder.                                             *)
(***************************************************************************)
\* C13: no value of a tree returned by RootNode construction is the Empty
\* placeholder; Empty is in an entry only between the mem::take and the
\* store of the pseudo-table inside EntryNode::normalize.
C13_NoEmptyValueReturned ==
    Returned => \A v \in TreeValues(root_entries) : v # Empty

\* A returned tree in which normalize moved the value of a dotted key out
\* and into a pseudo-table.
C13_Witness ==
    /\ Returned /\ WalkErrorFree
    /\ \E i \in 1..Len(merged_entries) : key_count(merged_entries[i].key) > 1
    /\ \E v \in TreeValues(root_entries) :
          /\ v.kind = "Table" /\ is_pseudo(v) /\ v.syntax.kind = "KEY"
          /\ Len(v.entries) = 1
          /\ v.entries[1].value.kind = "Integer"

(***************************************************************************)
(* C14: sub-tables before the array of tables they belong to.              *)
(***************************************************************************)
\* The positions in the map of the entries of index-group 0.
GroupZero == {i \in 1..Len(entries) : entries[i].k.index = 0}

ErrorReported(err) == \E n \in 1..Len(errors) : errors[n] = err

\* C14, as claimed: for every entry e of index-group 0 that is not an
\* array-of-tables header, at any position in the group, if a later entry of
\* the group is an array-of-tables header whose key is a prefix of the key of
\* e, the root walker reports ExpectedTableArray{target = later.key,
\* key = e.key}.
C14_SubTableBeforeArrayOfTables ==
    pc # "walk" =>
        \A i, j \in GroupZero :
            (/\ i < j
             /\ ~is_table_array(entries[i].v.value)
             /\ is_table_array(entries[j].v.value)
             /\ is_part_of(entries[j].k, entries[i].k))
                => ErrorReported(ExpectedTableArray(entries[j].k, entries[i].k))

(***************************************************************************)
(* C15: merge_entry on an old entry that holds no table.                   *)
(***************************************************************************)
MergeEntryReturned == call.op = "merge_entry" /\ ret # None

\* The old key is a prefix of the new key and the old value is a scalar.
OldIsScalar ==
    /\ is_part_of(call.old_entry.key, call.new_entry.key)
    /\ call.old_entry.value.kind = "Integer"

\* The old key is a prefix of the new key and the old value is an array
\* written inline.
OldIsInlineArray ==
    /\ is_part_of(call.old_entry.key, call.new_entry.key)
    /\ call.old_entry.value.kind = "Array"
    /\ ~call.old_entry.value.tables

\* merge_entry returned the error of the given type with the two keys and
\* left the old entry as it was.
ReturnedError(type) ==
    /\ ret[1].tag = "Err"
    /\ ret[1].err = [type |-> type, target |-> call.old_entry.key,
                     key |-> call.new_entry.key]
    /\ ret[1].old = call.old_entry
    /\ ret[1].errors = <<>>

KeyedHeaders(doc) == {p \in 1..Len(doc) : IsHeader(doc[p]) /\ doc[p].key # NoKey}

\* The key the walker gave the header at p: the key it is stored under if
\* it was inserted, its key with index 0 if it met a conflict.
HeaderKey(p) ==
    LET at == {i \in 1..Len(entries) :
                  entries[i].v.syntax = SyntaxRef(children[p].kind, p)}
    IN  IF at = {} THEN KeyNode(children[p].key, 0)
        ELSE entries[CHOOSE i \in at : TRUE].k

\* C16, as claimed: the check for mixed tables and dotted keys considers
\* every header, with or without entries beneath it: for any header h with
\* an entry-local key e and any other header h2 with the same index, if
\* h2.key_count() >= h.key_count() and h2 is a prefix of e.with_prefix(h),
\* DuplicateKey{first = h, second = h2} is reported, wherever h2 appears in
\* the document.
C16_MixedCheckConsidersEveryHeader ==
    pc # "walk" =>
        \A p, p2 \in KeyedHeaders(children) :
        \A q \in 1..Len(children) :
            LET h  == HeaderKey(p)
                h2 == HeaderKey(p2)
                e  == KeyNode(children[q].key, 0)
            IN  (/\ children[q].kind = "ENTRY"
                 /\ HeaderOf(children, q) = p
                 /\ ~KeyNode_eq(h, h2)
                 /\ h.index = h2.index
                 /\ key_count(h2) >= key_count(h)
                 /\ is_part_of(h2, with_prefix(e, h)))
                    => ErrorReported(DuplicateKey(h, h2))

(***************************************************************************)
(* C17: the text of an ident.                                              *)
(***************************************************************************)
\* The text with one leading quote and the matching trailing quote removed,
\* if it has them; the text itself otherwise.
UnquoteOnce(text) ==
    IF /\ Len(text) >= 2
       /\ Head(text) \in {DQ, SQ}
       /\ text[Len(text)] = Head(text)
    THEN SubSeq(text, 2, Len(text) - 1)
    ELSE text

UnquotedOnce(k) == [i \in 1..Len(k.idents) |-> UnquoteOnce(k.idents[i])]

\* C17, as claimed: for every ident token keys_str yields the literal text
\* of the token with its surrounding quotes trimmed exactly once: one
\* leading and one matching trailing quote character and nothing else, so
\* that quote characters of the content of the key are kept; and two keys
\* compare equal only if their once-unquoted texts are equal.
C17_QuotesTrimmedOnce ==
    /\ (call.op = "keys_str" /\ ret # None)
          => ret[1] = UnquotedOnce(call.self)
    /\ (call.op = "compare" /\ ret # None /\ ret[1].eq_keys)
          => UnquotedOnce(call.self) = UnquotedOnce(call.other)

(***************************************************************************)
(* C18: is_part_of, eq_keys, == and the hash.                              *)
(***************************************************************************)
\* C18: for all keys a and b, a.is_part_of(b) and b.is_part_of(a) both hold
\* if and only if a.eq_keys(b); and a == b (eq_keys and equal index)
\* implies that a and b give the hasher the same sequence of values.
C18_PartOfBothWaysIsEqKeys ==
    (call.op = "compare" /\ ret # None) =>
        /\ (ret[1].is_part_of /\ ret[1].is_part_of_rev) <=> ret[1].eq_keys
        /\ ret[1].eq <=> (ret[1].eq_keys /\ call.self.index = call.other.index)
        /\ ret[1].eq => ret[1].hash_self = ret[1].hash_other

\* Two keys of two idents were compared that are equal although the tokens
\* of one are quoted and those of the other are not.
C18_Witness ==
    /\ call.op = "compare" /\ ret # None
    /\ key_count(call.self) = 2
    /\ call.self.idents # call.other.idents
    /\ ret[1].is_part_of /\ ret[1].is_part_of_rev
    /\ ret[1].eq_keys /\ ret[1].eq
    /\ ret[1].hash_self = ret[1].hash_other

(***************************************************************************)
(* C19: without_prefix.                                                    *)
(***************************************************************************)
WithoutPrefixReturned == call.op = "without_prefix" /\ ret # None

\* C19, as claimed: for all keys k and other, k.without_prefix(other) is k
\* with its first common_prefix_count(other) idents dropped: its key_count
\* is k.key_count() - k.common_prefix_count(other), also when other is equal
\* to k or k is a prefix of other.
C19_WithoutPrefixDropsCommonPrefix ==
    WithoutPrefixReturned =>
        LET count == common_prefix_count(call.self, call.other)
        IN  /\ key_count(ret[1]) = key_count(call.self) - count
            /\ ret[1].idents = Drop(call.self.idents, count)

\* C19, amended: for all keys k and other, k.without_prefix(other) is k
\* with its first min(common_prefix_count(other), key_count() - 1) idents
\* dropped and its index kept: one ident at least remains, so that the
\* result is the last ident of k when other is equal to k or k is a prefix
\* of other.
C19_WithoutPrefixKeepsLastIdent ==
    WithoutPrefixReturned =>
        LET count   == common_prefix_count(call.self, call.other)
            dropped == Min(count, key_count(call.self) - 1)
        IN  /\ key_count(ret[1]) = key_count(call.self) - dropped
            /\ ret[1].idents = Drop(call.self.idents, dropped)
            /\ ret[1].index = call.self.index
            /\ key_count(ret[1]) >= 1

\* without_prefix was called on a key of two idents with a key that has the
\* same idents, and returned its last ident.
C19_Witness ==
    /\ WithoutPrefixReturned
    /\ key_count(call.self) = 2
    /\ eq_keys(call.self, call.other)
    /\ ret[1].idents = <<call.self.idents[2]>>

(***************************************************************************)
(* C20: the indices of the headers of an array of tables.                  *)
(***************************************************************************)
\* The positions in the map of the array-of-tables headers whose key has
\* the unquoted idents of the key at position i.
SameArrayHeaders(i) ==
    {j \in 1..Len(entries) :
        /\ is_table_array(entries[j].v.value)
        /\ keys_str(entries[j].k) = keys_str(entries[i].k)}

\* The index the entries under the header at p get: 0 before any header.
IndexUnder(p) == IF p = 0 THEN 0 ELSE HeaderKey(p).index

\* C20: after the root walk of any input, for every key text the
\* array-of-tables headers with that key text are in the entries map in
\* insertion order with the indices 0, 1, 2, ..., increasing without gaps,
\* and every entry declared under a header has the index of that header.
C20_ArrayHeaderIndicesWithoutGaps ==
    /\ \A i \in 1..Len(entries) :
          is_table_array(entries[i].v.value) =>
              entries[i].k.index =
                  Cardinality({j \in SameArrayHeaders(i) : j < i})
    /\ \A i \in 1..Len(entries) :
          entries[i].v.syntax.kind = "ENTRY" =>
              entries[i].k.index =
                  IndexUnder(HeaderOf(children, entries[i].v.syntax.pos))

\* Two array-of-tables headers with one key text were walked, and an entry
\* after each of them.
C20_Witness ==
    /\ Len(children) = 4
    /\ Len(entries) = 4
    /\ is_table_array(entries[1].v.value) /\ entries[1].k.index = 0
    /\ entries[2].v.syntax.kind = "ENTRY" /\ entries[2].k.index = 0
    /\ is_table_array(entries[3].v.value) /\ entries[3].k.index = 1
    /\ keys_str(entries[3].k) = keys_str(entries[1].k)
    /\ entries[4].v.syntax.kind = "ENTRY" /\ entries[4].k.index = 1

(***************************************************************************)
(* C21: the panics of merge.                                               *)
(***************************************************************************)
\* Every array of tables of the tree has items, the last of them a table.
ArraysOfTablesEndWithTable(es) ==
    \A v \in TreeValues(es) :
        (v.kind = "Array" /\ v.tables)
            => /\ Len(v.items) >= 1
               /\ v.items[Len(v.items)].kind = "Table"

\* C21: for every input on which the walk reports no error, merge and
\* normalize run to completion without reaching a panic: whenever
\* merge_entry descends into an Array with tables = true the array is not
\* empty and its last item is a Table, and the Empty arm is never reached.
C21_MergeNeverPanics ==
    /\ pc # "panic"
    /\ (Returned /\ WalkErrorFree)
          => /\ ArraysOfTablesEndWithTable(merged_entries)
             /\ \A v \in TreeValues(merged_entries) : v.kind # "Empty"

\* Merge has returned after it descended into the last of the two tables
\* of an array of tables.
C21_Witness ==
    /\ Returned /\ WalkErrorFree
    /\ Len(children) = 4
    /\ children[3].kind = "TABLE_ARRAY_HEADER"
    /\ children[4].kind = "ENTRY"
    /\ Len(merged_entries) = 1
    /\ merged_entries[1].value.kind = "Array"
    /\ merged_entries[1].value.tables
    /\ Len(merged_entries[1].value.items) = 2
    /\ Len(merged_entries[1].value.items[2].entries) = 1
    /\ root_errors = <<>>

(***************************************************************************)
(* C22: a sub-table in each element of an array of tables.                 *)
(***************************************************************************)
\* [[k]], [k.x], [[k]], [k.x]: one sub-table header under each of two
\* successive elements of the array of tables k.
IsC22Doc(doc) ==
    /\ Len(doc) = 4
    /\ doc[1].kind = "TABLE_ARRAY_HEADER" /\ doc[3] = doc[1]
    /\ doc[2].kind = "TABLE_HEADER" /\ doc[4] = doc[2]
    /\ Len(doc[1].key) = 1
    /\ Len(doc[2].key) = 2
    /\ IsPrefix(Unquoted(doc[1].key), Unquoted(doc[2].key))

\* The value is a table with one entry, an empty table under the ident x.
HoldsOneTable(v, x) ==
    /\ v.kind = "Table"
    /\ Len(v.entries) = 1
    /\ keys_str(v.entries[1].key) = <<x>>
    /\ v.entries[1].value.kind = "Table"
    /\ v.entries[1].value.entries = <<>>

\* C22, as claimed: a plain table header is reported as DuplicateKey only
\* if an earlier plain header or entry with the same key belongs to the
\* same element of the array of tables: a sub-table header [a.b] that
\* appears once under each of two successive [[a]] elements produces no
\* error, and each item of the array gets its own table b.
C22_SubTablePerArrayElement ==
    (Returned /\ IsC22Doc(children)) =>
        /\ root_errors = <<>>
        /\ Len(root_entries) = 1
        /\ keys_str(root_entries[1].key) = Unquoted(children[1].key)
        /\ root_entries[1].value.kind = "Array"
        /\ root_entries[1].value.tables
        /\ Len(root_entries[1].value.items) = 2
        /\ \A j \in 1..2 :
              HoldsOneTable(root_entries[1].value.items[j],
                            Unquoted(children[2].key)[2])

(***************************************************************************)
(* C23: the items of an array.                                             *)
(***************************************************************************)
\* The entries of the map whose value was cast from an ARRAY node.
ArrayEntries ==
    {i \in 1..Len(entries) :
        /\ entries[i].v.syntax.kind = "ENTRY"
        /\ entries[i].v.value.kind = "Array"}

\* The ARRAY node the value of the entry at position i was cast from.
ArrayNodeOf(i) == children[entries[i].v.syntax.pos].value.child

\* C23, as claimed: an ArrayNode cast from an ARRAY syntax node has exactly
\* one item per direct element of the array, in source order: the values
\* nested in an element that is itself an array or an inline table are
\* inside that element only and never further items of the outer array.
C23_OneItemPerElement ==
    \A i \in ArrayEntries :
        LET items  == entries[i].v.value.items
            values == ArrayNodeOf(i).values
            pos    == entries[i].v.syntax.pos
        IN  /\ Len(items) = Len(values)
            /\ \A j \in 1..Len(values) :
                  Some(items[j]) = ValueNode_cast(values[j], pos)

====
